---- MODULE Spec2Model ----
(***************************************************************************)
(* Model of the flight-search bot of src/arzonuching/app/main.py: the      *)
(* per-user QueryState kept in user_state, the handlers that drive the     *)
(* dialogue (on_start, pick_origin, pick_dest, cal_set, res_more,          *)
(* buy_ticket, got_contact, reset_flow), the two provider fetches of a     *)
(* search and merge_results.  A handler's input is whatever its callback   *)
(* data can carry: no handler checks it against the keyboard that is on    *)
(* the message.                                                            *)
(*                                                                         *)
(* Spec is that dialogue.  Five more specifications apply one function     *)
(* per step to arguments drawn in the initial state: SpecMerge             *)
(* (merge_results), SpecPage (build_results_text and results_kb as the     *)
(* handlers call them), SpecRunSearch (run_search of bot_logic.py with     *)
(* fetch_cheapest of aviasales.py and create_service_fee_invoice of        *)
(* payments.py), SpecIata (ensure_iata of aviasales.py) and SpecLink       *)
(* (build_ref_link of buy_ticket).  They hold the call and its result in   *)
(* last.                                                                   *)
(*                                                                         *)
(* Python values are encoded as follows.                                   *)
(*   Optional[x]   <<>> is None, <<x>> is a present value                  *)
(*   price         [t |-> "none" | "int" | "str" | "float", v |-> n]:      *)
(*                 None, the int n, the digit string str(n), a float that  *)
(*                 is not a whole number (n orders the floats)             *)
(*   departure_at  a string, kept as the tuple of its parts                *)
(*                 <<year, month-day, time>>; <<>> is the empty string     *)
(*   exceptions    a handler that raises ends there: what it wrote before  *)
(*                 stays written, and last.out = "crash"                   *)
(***************************************************************************)
EXTENDS Integers, Sequences, FiniteSets, TLC

VARIABLES
    user_state,   \* main.py:84  Dict[int, QueryState]: a function on the users that have a session
    msgs,         \* the chat's bot messages that carry an inline keyboard: <<[text, kb], ...>>
    calls,        \* the cal_set handlers in flight (suspended at an await), one per slot
    last,         \* what the handler step just taken answered / emitted
    env           \* the environment the process was started with (main.py:33-41)

vars == <<user_state, msgs, calls, last, env>>

----------------------------------------------------------------------------
(* Bounds of the model *)

MaxMsgs == 1      \* messages created by /start
MaxPage == 2      \* res_more is not taken beyond this page
MaxCalls == 2     \* slots for cal_set handlers in flight
MaxIdx == 1       \* a buy callback carries an index in -MaxIdx..MaxIdx
MaxPool == 2      \* items in a list handed to merge_results on its own
MaxResults == 11  \* offers of a session whose page is rendered on its own
MaxPerDay == 2    \* offers in one answer of the provider to fetch_cheapest
MaxCodeLen == 4   \* characters of a string handed to ensure_iata

(* Program constants *)

PAGE_SIZE == 5
MERGE_LIMIT == 40
\* 10**12 in the source; TLC's integers are 32-bit, and every modelled price is below
NO_INT_PRICE_KEY == 1000000000

\* bot_logic.py, aviasales.py
FREE_COUNT == 3
PAID_END == 10
DAYS_FLEX == 3
FETCH_CAP == 10
\* 9e12 in the source, with the same remark
NO_PRICE_KEY == 2000000000
\* payments.py
SERVICE_FEE_AMOUNT == 50000

Users == {1}
Slots == 1..MaxCalls

\* COUNTRIES (a part of it): (city, iata)
COUNTRIES == {<<"Tashkent", "TAS">>, <<"Istanbul", "IST">>}
Codes == {c[2] : c \in COUNTRIES}
CityOf(iata) == (CHOOSE c \in COUNTRIES : c[2] = iata)[1]

\* the days a calendar button can carry (not before today)
Dates == {1}

None == <<>>
Some(x) == <<x>>
Val(o) == o[1]

Min(a, b) == IF a <= b THEN a ELSE b
Max(a, b) == IF a >= b THEN a ELSE b

----------------------------------------------------------------------------
(* QueryState *)

QueryState ==
    [origin |-> None, origin_label |-> None,
     destination |-> None, destination_label |-> None,
     depart_date |-> None, return_date |-> None,
     results |-> <<>>, page |-> 0,
     selected_idx |-> None, adding_return |-> FALSE]

----------------------------------------------------------------------------
(* Prices and raw provider items *)

PNone == [t |-> "none", v |-> 0]
PInt(n) == [t |-> "int", v |-> n]
PStr(n) == [t |-> "str", v |-> n]
PFloat(n) == [t |-> "float", v |-> n]

\* Python truthiness of a price value: None, 0 and 0.0 are falsy, a non-empty string is truthy
Truthy(p) ==
    CASE p.t = "none" -> FALSE
      [] p.t = "int" -> p.v # 0
      [] p.t = "float" -> TRUE
      [] p.t = "str" -> TRUE

\* a or b
Or(a, b) == IF Truthy(a) THEN a ELSE b
StrOr(a, b) == IF a # "" THEN a ELSE b
SeqOr(a, b) == IF a # <<>> THEN a ELSE b

\* str(price).isdigit(): a non-negative int or a digit string
IsDigit(p) == (p.t = "int" /\ p.v >= 0) \/ p.t = "str"

\* a raw item of a provider's "data" list
Raw(price, value, airline, gate, dep, dep_iso, link) ==
    [price |-> price, value |-> value, airline |-> airline, gate |-> gate,
     departure_at |-> dep, departure_at_iso |-> dep_iso,
     flight_number |-> "", link |-> link, deeplink |-> ""]

\* merge_results, the loop body that normalizes one item
Normalize(item) ==
    LET price == Or(item.price, item.value)
    IN [price |-> IF IsDigit(price) THEN PInt(price.v) ELSE price,
        airline |-> StrOr(StrOr(item.airline, item.gate), ""),
        link |-> StrOr(StrOr(item.link, item.deeplink), ""),
        departure_at |-> SeqOr(SeqOr(item.departure_at, item.departure_at_iso), <<>>),
        flight_number |-> StrOr(item.flight_number, "")]

\* the sort key of merge_results
SortKey(x) == IF x.price.t = "int" THEN x.price.v ELSE NO_INT_PRICE_KEY

\* list.sort(key=...): stable, ascending.  The head of s came before every
\* element of the sorted rest, so it is put before the first one whose key is
\* not smaller than its own.
RECURSIVE InsertFirst(_, _)
InsertFirst(x, r) ==
    IF r = <<>> THEN <<x>>
    ELSE IF SortKey(x) <= SortKey(Head(r)) THEN <<x>> \o r
    ELSE <<Head(r)>> \o InsertFirst(x, Tail(r))

\* a sort that would leave the list as it is
SortLeavesOrder(s) == s

RECURSIVE SortStable(_)
SortStable(s) ==
    IF s = <<>> THEN <<>> ELSE InsertFirst(Head(s), SortStable(Tail(s)))

DedupKey(n) == <<n.airline, n.departure_at>>

\* the dedup loop of merge_results: the limit is tested after the append
RECURSIVE DedupLoop(_, _, _, _)
DedupLoop(s, seen, unique, limit) ==
    IF s = <<>> THEN unique
    ELSE LET n == Head(s)
             k == DedupKey(n)
         IN IF k \in seen THEN DedupLoop(Tail(s), seen, unique, limit)
            ELSE IF Len(unique) + 1 >= limit THEN Append(unique, n)
            ELSE DedupLoop(Tail(s), seen \cup {k}, Append(unique, n), limit)

RECURSIVE MapNormalize(_)
MapNormalize(pool) ==
    IF pool = <<>> THEN <<>> ELSE <<Normalize(Head(pool))>> \o MapNormalize(Tail(pool))

merge_results(l1, l2, limit) ==
    DedupLoop(SortStable(MapNormalize(l1 \o l2)), {}, <<>>, limit)

----------------------------------------------------------------------------
(* Rendering *)

\* fmt_price: a dash for None, else the number with its currency
fmt_price(p) == IF p.t = "none" THEN <<"-">> ELSE <<p.t, p.v>>

\* one numbered entry of build_results_text: departure_at is shown as day.month
\* and time when it is a full timestamp, as dashes otherwise
ResultLine(i, r) ==
    LET dt == r.departure_at
        full == Len(dt) = 3
    IN [i |-> i, price |-> fmt_price(r.price), airline |-> r.airline,
        d_show |-> IF full THEN dt[2] ELSE "-",
        t_show |-> IF full THEN dt[3] ELSE "-"]

\* q.results[start:start + PAGE_SIZE]
Chunk(results, start) ==
    SubSeq(results, start + 1, Min(Len(results), start + PAGE_SIZE))

\* a text that would not tell an empty result list from a page past the end
build_results_text_no_empty_case(q) ==
    LET head == <<q.origin, q.destination, q.depart_date, q.return_date>>
        start == q.page * PAGE_SIZE
        chunk == Chunk(q.results, start)
    IN IF chunk = <<>> THEN [k |-> "results", head |-> head, body |-> "all_shown", lines |-> <<>>]
       ELSE [k |-> "results", head |-> head, body |-> "chunk",
             lines |-> [j \in 1..Len(chunk) |-> ResultLine(start + j, chunk[j])]]

build_results_text(q) ==
    LET head == <<q.origin, q.destination, q.depart_date, q.return_date>>
        start == q.page * PAGE_SIZE
        chunk == Chunk(q.results, start)
    IN IF q.results = <<>> THEN [k |-> "results", head |-> head, body |-> "no_results", lines |-> <<>>]
       ELSE IF chunk = <<>> THEN [k |-> "results", head |-> head, body |-> "all_shown", lines |-> <<>>]
       ELSE [k |-> "results", head |-> head, body |-> "chunk",
             lines |-> [j \in 1..Len(chunk) |-> ResultLine(start + j, chunk[j])]]

\* countries_kb: one button per city, the excluded code left out
countries_kb(stage, exclude_iata) ==
    [k |-> "countries", stage |-> stage,
     buttons |-> {c[2] : c \in {x \in COUNTRIES : ~(exclude_iata # None /\ x[2] = Val(exclude_iata))}}]

\* calendar_kb: the days not before today, the selected one marked
calendar_kb(selected) == [k |-> "calendar", days |-> Dates, selected |-> selected]

\* results_kb: a buy button per visible offer, then the navigation row
\* a keyboard whose buy buttons would count from one
results_kb_from_one(visible, start_index, has_more, can_add_return) ==
    [k |-> "results",
     buy |-> [i \in 1..Max(visible, 0) |-> start_index + i],
     more |-> has_more, ret |-> can_add_return]

results_kb(visible, start_index, has_more, can_add_return) ==
    [k |-> "results",
     buy |-> [i \in 1..Max(visible, 0) |-> start_index + (i - 1)],
     more |-> has_more, ret |-> can_add_return]

NoKb == [k |-> "none"]

\* a view that would offer more when the page ends with the list
ResultsView_more_at_end(q, clip) ==
    LET start_idx == q.page * PAGE_SIZE
        has_more == Len(q.results) >= start_idx + PAGE_SIZE
        left == Len(q.results) - start_idx
    IN [text |-> build_results_text(q),
        kb |-> results_kb(Min(PAGE_SIZE, IF clip THEN Max(0, left) ELSE left),
                          start_idx, has_more, q.return_date = None)]

\* the text and keyboard cal_set and res_more put on the message
\* (clip is res_more's max(0, ...) around the number of offers left)
ResultsView(q, clip) ==
    LET start_idx == q.page * PAGE_SIZE
        has_more == Len(q.results) > start_idx + PAGE_SIZE
        left == Len(q.results) - start_idx
    IN [text |-> build_results_text(q),
        kb |-> results_kb(Min(PAGE_SIZE, IF clip THEN Max(0, left) ELSE left),
                          start_idx, has_more, q.return_date = None)]

----------------------------------------------------------------------------
(* Provider fetches *)

\* what the outbound HTTP call of a fetch can come to
HttpKinds == {"netfail", "timeout", "status", "badjson", "nokey", "ok"}

Pending == [k |-> "pending", v |-> <<>>]
RetList(l) == [k |-> "list", v |-> l]
Raises == [k |-> "raise", v |-> <<>>]

\* the body both fetches share after the token test: status, r.json(), data.get("data", [])
HttpBody(http) ==
    CASE http.k \in {"netfail", "timeout"} -> Raises
      [] http.k = "status" -> RetList(<<>>)
      [] http.k = "badjson" -> Raises
      [] http.k = "nokey" -> RetList(<<>>)
      [] http.k = "ok" -> RetList(http.data)

\* fetch_travelpayouts: no try/except around the call
fetch_travelpayouts(token, http) ==
    IF ~token THEN RetList(<<>>) ELSE HttpBody(http)

\* fetch_aviasales: except Exception: return []
fetch_aviasales(token, http) ==
    IF ~token THEN RetList(<<>>)
    ELSE IF HttpBody(http) = Raises THEN RetList(<<>>) ELSE HttpBody(http)

----------------------------------------------------------------------------
(* The data the providers can answer with, for a query of day d *)

DayStr(d) == CASE d = 1 -> "11-05" [] d = 2 -> "11-06" [] OTHER -> "11-07"
Dep(d, t) == <<"2025", DayStr(d), t>>

\* Travelpayouts items: price / airline / departure_at
TpItem(d, n) == Raw(PInt(100 * n), PNone, "A", "", Dep(d, "0" \o ToString(n) \o ":00"), <<>>, "")
\* Aviasales item: the aliases value / gate / departure_at_iso, and a purchase link;
\* the same airline and time as TpItem(d, 1), dearer
AvsItem(d) == Raw(PNone, PInt(120), "", "A", <<>>, Dep(d, "01:00"), "L")

TpPayloads(d) == {<<>>, [n \in 1..(PAGE_SIZE + 1) |-> TpItem(d, n)]}
AvsPayloads(d) == {<<>>, <<AvsItem(d)>>}

Http(payloads) ==
    {[k |-> kind, data |-> <<>>] : kind \in HttpKinds \ {"ok"}}
        \cup {[k |-> "ok", data |-> p] : p \in payloads}

\* deployments: TP_API_TOKEN, AVS_API_TOKEN, MANAGERS_CHAT_ID and REF_LINK_TEMPLATE
\* all set, and all left at their defaults (empty, 0)
Envs ==
    {[tp_token |-> TRUE, avs_token |-> TRUE, managers |-> TRUE, ref_template |-> TRUE],
     [tp_token |-> FALSE, avs_token |-> FALSE, managers |-> FALSE, ref_template |-> FALSE]}

----------------------------------------------------------------------------
(* State *)

IdleCall ==
    [pc |-> "idle", uid |-> 0, att |-> FALSE, own |-> QueryState, msg |-> 0,
     q |-> <<>>, tp |-> Pending, avs |-> Pending]

\* what a handler step leaves in last
Out(h, uid, out) ==
    [h |-> h, uid |-> uid, out |-> out, lead |-> FALSE, link |-> None, slot |-> 0, acc |-> TRUE]

Init ==
    /\ user_state = <<>>
    /\ msgs = <<>>
    /\ calls = [h \in Slots |-> IdleCall]
    /\ last = [Out("boot", 0, "ok") EXCEPT !.acc = FALSE]
    /\ env \in Envs

Has(uid) == uid \in DOMAIN user_state
MsgIds == 1..Len(msgs)

\* user_state[uid] = q
Put(uid, q) == [u \in DOMAIN user_state \cup {uid} |-> IF u = uid THEN q ELSE user_state[u]]

\* user_state.setdefault(uid, QueryState()): the session after the call
SetDefault(uid) == IF Has(uid) THEN user_state[uid] ELSE QueryState

\* of an object that is no longer the user's session, the fields the rest of
\* cal_set reads (it overwrites results before it reads them)
Detached(q) ==
    [QueryState EXCEPT !.origin = q.origin, !.destination = q.destination,
                       !.depart_date = q.depart_date, !.return_date = q.return_date,
                       !.page = q.page]

\* user_state[uid] = QueryState() makes a new object: a cal_set in flight keeps
\* its reference st to the old one, which is no longer the user's session
Detach(uid) ==
    [h \in Slots |->
        IF calls[h].pc # "idle" /\ calls[h].uid = uid /\ calls[h].att
        THEN [calls[h] EXCEPT !.att = FALSE, !.own = Detached(user_state[uid])]
        ELSE calls[h]]

\* the object a cal_set in flight holds as st
Obj(h) == IF calls[h].att THEN user_state[calls[h].uid] ELSE calls[h].own

Edit(m, text, kb) == [msgs EXCEPT ![m] = [text |-> text, kb |-> kb]]

----------------------------------------------------------------------------
(* Handlers *)

\* /start
on_start ==
    \E uid \in Users :
        /\ Len(msgs) < MaxMsgs
        /\ calls' = Detach(uid)
        /\ user_state' = Put(uid, QueryState)
        /\ msgs' = Append(msgs, [text |-> [k |-> "start"], kb |-> countries_kb("origin", None)])
        /\ last' = Out("on_start", uid, "ok")
        /\ UNCHANGED env

\* pick:origin:<iata>:<city>
pick_origin ==
    \E uid \in Users, m \in MsgIds, iata \in Codes :
        LET st == [SetDefault(uid) EXCEPT !.origin = Some(iata), !.origin_label = Some(CityOf(iata))]
        IN /\ user_state' = Put(uid, st)
           /\ msgs' = Edit(m, [k |-> "origin", origin |-> iata], countries_kb("dest", Some(iata)))
           /\ last' = Out("pick_origin", uid, "ok")
           /\ UNCHANGED <<calls, env>>

\* pick:dest:<iata>:<city>
pick_dest ==
    \E uid \in Users, m \in MsgIds, iata \in Codes :
        LET st == [SetDefault(uid) EXCEPT !.destination = Some(iata),
                                          !.destination_label = Some(CityOf(iata))]
        IN /\ user_state' = Put(uid, st)
           /\ msgs' = Edit(m, [k |-> "route", origin |-> st.origin, destination |-> st.destination],
                           calendar_kb(st.depart_date))
           /\ last' = Out("pick_dest", uid, "ok")
           /\ UNCHANGED <<calls, env>>

\* a reset that would carry the origin over into the new session
reset_flow_keeps_origin ==
    \E uid \in Users, m \in MsgIds :
        /\ calls' = Detach(uid)
        /\ user_state' = Put(uid, [QueryState EXCEPT !.origin = SetDefault(uid).origin])
        /\ msgs' = Edit(m, [k |-> "new_search"], countries_kb("origin", None))
        /\ last' = Out("reset_flow", uid, "ok")
        /\ UNCHANGED env

\* reset
reset_flow ==
    \E uid \in Users, m \in MsgIds :
        /\ calls' = Detach(uid)
        /\ user_state' = Put(uid, QueryState)
        /\ msgs' = Edit(m, [k |-> "new_search"], countries_kb("origin", None))
        /\ last' = Out("reset_flow", uid, "ok")
        /\ UNCHANGED env

\* the lowest free slot takes the next cal_set that suspends
FreeSlot(h) == calls[h].pc = "idle" /\ \A g \in Slots : g < h => calls[g].pc # "idle"

\* cal:set:<date>, up to its first await.  With adding_return set it records
\* the return date and re-renders the results; otherwise it records the
\* departure date, resets the page and announces the search.  S: the slots a
\* handler that suspends may take.
cal_set_on(S) ==
    \E uid \in Users, m \in MsgIds, chosen \in Dates, h \in S :
        LET st == SetDefault(uid) IN
        /\ FreeSlot(h)
        /\ IF st.adding_return
           THEN LET st2 == [st EXCEPT !.return_date = Some(chosen), !.adding_return = FALSE]
                    view == ResultsView(st2, FALSE)
                IN /\ user_state' = Put(uid, st2)
                   /\ msgs' = Edit(m, view.text, view.kb)
                   /\ last' = Out("cal_set", uid, "return_date_chosen")
                   /\ UNCHANGED calls
           ELSE LET st2 == [st EXCEPT !.depart_date = Some(chosen), !.page = 0]
                IN /\ user_state' = Put(uid, st2)
                   /\ msgs' = Edit(m, [k |-> "searching", origin |-> st2.origin,
                                       destination |-> st2.destination, date |-> st2.depart_date],
                                   NoKb)
                   /\ calls' = [calls EXCEPT ![h] =
                                   [IdleCall EXCEPT !.pc = "announced", !.uid = uid,
                                                    !.att = TRUE, !.msg = m]]
                   /\ last' = [Out("cal_set", uid, "searching") EXCEPT !.slot = h]
        /\ UNCHANGED env

\* a date chosen while no other search of the user is in flight
cal_set == cal_set_on({1})

\* cal_set resumes after its two answers: the arguments of both fetches are
\* read from st and asyncio.gather starts them
cal_set_fetch ==
    \E h \in Slots :
        /\ calls[h].pc = "announced"
        /\ calls' = [calls EXCEPT ![h].pc = "gather",
                                  ![h].q = <<Obj(h).origin, Obj(h).destination, Obj(h).depart_date>>]
        /\ last' = [Out("cal_set", calls[h].uid, "fetching") EXCEPT !.slot = h]
        /\ UNCHANGED <<user_state, msgs, env>>

\* the Travelpayouts call of a search in flight comes back
resolve_tp ==
    \E h \in Slots :
        /\ calls[h].pc = "gather"
        /\ calls[h].tp = Pending
        /\ \E http \in Http(TpPayloads(Val(calls[h].q[3]))) :
               calls' = [calls EXCEPT ![h].tp = fetch_travelpayouts(env.tp_token, http)]
        /\ last' = [Out("fetch_travelpayouts", calls[h].uid, "resolved") EXCEPT !.slot = h, !.acc = FALSE]
        /\ UNCHANGED <<user_state, msgs, env>>

\* the Aviasales call of a search in flight comes back
resolve_avs ==
    \E h \in Slots :
        /\ calls[h].pc = "gather"
        /\ calls[h].avs = Pending
        /\ \E http \in Http(AvsPayloads(Val(calls[h].q[3]))) :
               calls' = [calls EXCEPT ![h].avs = fetch_aviasales(env.avs_token, http)]
        /\ last' = [Out("fetch_aviasales", calls[h].uid, "resolved") EXCEPT !.slot = h, !.acc = FALSE]
        /\ UNCHANGED <<user_state, msgs, env>>

\* asyncio.gather(tp_task, avs_task) without return_exceptions: it raises as
\* soon as one call has raised, and returns once both have returned
\* a wait that would end with the first call to return
GatherReturned_first(c) == c.tp.k = "list" \/ c.avs.k = "list"
GatherRaised(c) == c.tp = Raises \/ c.avs = Raises
GatherReturned(c) == c.tp.k = "list" /\ c.avs.k = "list"

\* cal_set resumes after the gather: merge, store, render.  An exception of the
\* gather ends the handler.
cal_set_done ==
    \E h \in Slots :
        LET c == calls[h]
            st == Obj(h)
            st2 == [st EXCEPT !.results = merge_results(c.tp.v, c.avs.v, MERGE_LIMIT)]
            view == ResultsView(st2, FALSE)
        IN /\ c.pc = "gather"
           /\ GatherRaised(c) \/ GatherReturned(c)
           /\ calls' = [calls EXCEPT ![h] = IdleCall]
           /\ IF GatherRaised(c)
              THEN /\ last' = [Out("cal_set", c.uid, "crash") EXCEPT !.slot = h, !.acc = FALSE]
                   /\ UNCHANGED <<user_state, msgs>>
              ELSE /\ user_state' = IF c.att THEN Put(c.uid, st2) ELSE user_state
                   /\ msgs' = Edit(c.msg, view.text, view.kb)
                   /\ last' = [Out("cal_set", c.uid, "results") EXCEPT !.slot = h]
           /\ UNCHANGED env

\* res:more
res_more ==
    \E uid \in Users, m \in MsgIds :
        /\ IF ~Has(uid) \/ user_state[uid].results = <<>>
           THEN /\ last' = Out("res_more", uid, "pick_route_first")
                /\ UNCHANGED <<user_state, msgs>>
           ELSE LET st == [user_state[uid] EXCEPT !.page = @ + 1]
                    view == ResultsView(st, TRUE)
                IN /\ st.page <= MaxPage
                   /\ user_state' = Put(uid, st)
                   /\ IF view.text = msgs[m].text
                      THEN /\ last' = Out("res_more", uid, "no_more_results")
                           /\ UNCHANGED msgs
                      ELSE /\ msgs' = Edit(m, view.text, view.kb)
                           /\ last' = Out("res_more", uid, "ok")
        /\ UNCHANGED <<calls, env>>

\* results[idx] of Python: a negative idx counts from the end
InRange(results, idx) == -Len(results) <= idx /\ idx < Len(results)
At(results, idx) == IF idx >= 0 THEN results[idx + 1] ELSE results[Len(results) + idx + 1]

\* the days the process can take for today
Todays == {1, 2}

\* a link that would carry the day of the click, not the day of the flight
build_ref_link_of_today(choice, st, today) ==
    IF choice.link # "" THEN Some(choice.link)
    ELSE IF env.ref_template
         THEN Some(<<"template", st.origin, st.destination, Some(today)>>)
         ELSE None

\* build_ref_link of buy_ticket: the offer's own link, else the template filled
\* in with the route and (st.depart_date or date.today())
build_ref_link(choice, st, today) ==
    IF choice.link # "" THEN Some(choice.link)
    ELSE IF env.ref_template
         THEN Some(<<"template", st.origin, st.destination,
                     IF st.depart_date # None THEN st.depart_date ELSE Some(today)>>)
         ELSE None

\* buy:<idx>
buy_ticket ==
    \E uid \in Users, m \in MsgIds, idx \in (-MaxIdx)..MaxIdx, today \in Todays :
        /\ IF ~Has(uid) \/ user_state[uid].results = <<>> \/ idx >= Len(user_state[uid].results)
           THEN /\ last' = Out("buy_ticket", uid, "not_found")
                /\ UNCHANGED user_state
           ELSE LET st == [user_state[uid] EXCEPT !.selected_idx = Some(idx)]
                IN /\ user_state' = Put(uid, st)
                   /\ IF InRange(st.results, idx)
                      THEN last' = [Out("buy_ticket", uid, "contact_prompt") EXCEPT
                                       !.link = build_ref_link(At(st.results, idx), st, today)]
                      ELSE last' = Out("buy_ticket", uid, "crash")
        /\ UNCHANGED <<msgs, calls, env>>

\* a shared contact
got_contact ==
    \E uid \in Users, sent \in BOOLEAN :
        /\ IF ~Has(uid) \/ user_state[uid].selected_idx = None \/ user_state[uid].results = <<>>
           THEN last' = Out("got_contact", uid, "thanks")
           ELSE LET st == user_state[uid] IN
                IF ~InRange(st.results, Val(st.selected_idx))
                THEN last' = Out("got_contact", uid, "crash")
                ELSE IF env.managers
                     THEN IF sent
                          THEN last' = [Out("got_contact", uid, "manager_will_call") EXCEPT !.lead = TRUE]
                          ELSE last' = Out("got_contact", uid, "lead_not_sent")
                     ELSE last' = Out("got_contact", uid, "manager_will_call")
        /\ UNCHANGED <<user_state, msgs, calls, env>>

Next ==
    \/ on_start
    \/ pick_origin
    \/ pick_dest
    \/ reset_flow
    \/ cal_set
    \/ cal_set_fetch
    \/ resolve_tp
    \/ resolve_avs
    \/ cal_set_done
    \/ res_more
    \/ buy_ticket
    \/ got_contact

\* the dialogue of a user who has one search in flight at a time
Spec == Init /\ [][Next]_vars

----------------------------------------------------------------------------
(* merge_results on its own: one call per step, on pools drawn from a     *)
(* small set of raw items; last holds the call and what it returned      *)

\* raw items as the providers deliver them.  ItemDear and ItemCheap are the
\* same flight (airline and time) at two prices, the second through the
\* aliases gate / departure_at_iso; ItemNoPrice has neither price nor value;
\* ItemFloat has a price that is not a whole number; ItemZero has "value": 0
ItemDear == Raw(PInt(120), PNone, "X", "", Dep(1, "08:00"), <<>>, "")
ItemCheap == Raw(PNone, PInt(100), "", "X", <<>>, Dep(1, "08:00"), "L")
ItemNoPrice == Raw(PNone, PNone, "B", "", Dep(1, "09:00"), <<>>, "")
ItemFloat == Raw(PFloat(99), PNone, "C", "", Dep(1, "10:00"), <<>>, "")
ItemZero == Raw(PNone, PInt(0), "D", "", Dep(1, "11:00"), <<>>, "")
RawItems == {ItemDear, ItemCheap, ItemNoPrice, ItemFloat, ItemZero}

\* the lists one provider can return: up to MaxPool items
Pools == UNION {[1..n -> RawItems] : n \in 0..MaxPool}

\* the limits merge_results is called with
Limits == {0, 1, MERGE_LIMIT}

\* an offer of a merged list read as an item again (item.get of a key the
\* offer does not have gives None)
AsRaw(n) ==
    [Raw(n.price, PNone, n.airline, "", n.departure_at, <<>>, n.link)
        EXCEPT !.flight_number = n.flight_number]

RECURSIVE MapAsRaw(_)
MapAsRaw(r) == IF r = <<>> THEN <<>> ELSE <<AsRaw(Head(r))>> \o MapAsRaw(Tail(r))

\* the part of the state merge_results, the rendering and run_search neither
\* read nor write
NoDialogue ==
    /\ user_state = <<>>
    /\ msgs = <<>>
    /\ calls = [h \in Slots |-> IdleCall]
    /\ env \in {e \in Envs : e.tp_token}

InitMerge ==
    /\ NoDialogue
    /\ \E l1 \in Pools, l2 \in Pools, limit \in Limits :
           last = [h |-> "input", l1 |-> l1, l2 |-> l2, limit |-> limit]

\* merge_results(l1, l2, limit=limit)
call_merge_results ==
    /\ last.h = "input"
    /\ last' = [h |-> "merge_results", l1 |-> last.l1, l2 |-> last.l2, limit |-> last.limit,
                out |-> merge_results(last.l1, last.l2, last.limit)]
    /\ UNCHANGED <<user_state, msgs, calls, env>>

\* merge_results(merged, limit=limit) on the list the last call returned
call_merge_results_again ==
    /\ last.h = "merge_results"
    /\ last' = [h |-> "merge_results_again", l1 |-> MapAsRaw(last.out), l2 |-> <<>>,
                limit |-> last.limit, merged |-> last.out,
                out |-> merge_results(MapAsRaw(last.out), <<>>, last.limit)]
    /\ UNCHANGED <<user_state, msgs, calls, env>>

NextMerge ==
    \/ call_merge_results
    \/ call_merge_results_again

SpecMerge == InitMerge /\ [][NextMerge]_vars

----------------------------------------------------------------------------
(* The rendering of a results page on its own: the text and the keyboard  *)
(* the three places that render results compute from a session            *)

\* the n-th offer of a result list
OfferNo(n) == Normalize(TpItem(1, n))

\* the places that render results: cal_set after the search, cal_set after a
\* return date, res_more
RenderSites == {"cal_set", "cal_set_return", "res_more"}

\* a session with n results at a page, as the place finds it: res_more has
\* passed its test of st.results and added one to the page
RenderInputs ==
    {[site |-> site,
      q |-> [QueryState EXCEPT !.origin = Some("TAS"), !.destination = Some("IST"),
                               !.depart_date = Some(1),
                               !.return_date = IF site = "cal_set_return" THEN Some(1) ELSE None,
                               !.results = [i \in 1..n |-> OfferNo(i)],
                               !.page = page]] :
        site \in RenderSites, n \in 0..MaxResults, page \in 0..MaxPage}

InitPage ==
    /\ NoDialogue
    /\ \E x \in {y \in RenderInputs : y.site = "res_more" => (y.q.results # <<>> /\ y.q.page >= 1)} :
           last = [h |-> "input", site |-> x.site, q |-> x.q]

\* build_results_text and results_kb as the place calls them
call_render ==
    /\ last.h = "input"
    /\ last' = [h |-> "render", site |-> last.site, q |-> last.q,
                view |-> ResultsView(last.q, last.site = "res_more")]
    /\ UNCHANGED <<user_state, msgs, calls, env>>

NextPage == call_render

SpecPage == InitPage /\ [][NextPage]_vars

----------------------------------------------------------------------------
(* run_search of bot_logic.py with fetch_cheapest of aviasales.py and     *)
(* create_service_fee_invoice of payments.py: one search per step, on a   *)
(* session, a date and provider answers drawn from small sets             *)

\* RU_DESTS and UAE_DESTS (a part of them): the airports of a destination group
DEST_GROUPS ==
    [ru |-> [Moscow |-> <<"SVO", "DME", "VKO">>, Petersburg |-> <<"LED">>],
     uae |-> [Dubai |-> <<"DXB", "DWC">>]]

\* a number that tells the airports apart in the prices they answer with
DestNo(dest) ==
    CASE dest = "SVO" -> 1 [] dest = "DME" -> 2 [] dest = "VKO" -> 3
      [] dest = "LED" -> 4 [] dest = "DXB" -> 5 [] OTHER -> 6

\* the key sorted() and list.sort() get for an offer: z["price"] or 9e12
PriceKey(z) == IF Truthy(z.price) THEN z.price.v ELSE NO_PRICE_KEY

\* stable ascending sort by PriceKey
RECURSIVE InsertByPrice(_, _)
InsertByPrice(x, r) ==
    IF r = <<>> THEN <<x>>
    ELSE IF PriceKey(x) <= PriceKey(Head(r)) THEN <<x>> \o r
    ELSE <<Head(r)>> \o InsertByPrice(x, Tail(r))

RECURSIVE SortByPrice(_)
SortByPrice(s) ==
    IF s = <<>> THEN <<>> ELSE InsertByPrice(Head(s), SortByPrice(Tail(s)))

\* fetch_cheapest, the loop that keeps the first offer of each
\* (departure_at, flight_number)
RECURSIVE DedupFlights(_, _)
DedupFlights(s, seen) ==
    IF s = <<>> THEN <<>>
    ELSE LET key == <<Head(s).departure_at, Head(s).flight_number>>
         IN IF key \in seen THEN DedupFlights(Tail(s), seen)
            ELSE <<Head(s)>> \o DedupFlights(Tail(s), seen \cup {key})

RECURSIVE Concat(_)
Concat(ss) == IF ss = <<>> THEN <<>> ELSE Head(ss) \o Concat(Tail(ss))

\* the days fetch_cheapest asks for: dep_date + shift for shift in -days_flex..days_flex
FetchDays(dep_day, days_flex) ==
    [i \in 1..(2 * days_flex + 1) |-> dep_day - days_flex + (i - 1)]

\* an item of the provider's "data" list
Flight(dep, price, flight) ==
    [departure_at |-> dep, price |-> price, transfers |-> 0,
     flight_number |-> flight, airline |-> "HY"]

\* the offer fetch_cheapest makes of an item; the link carries day and month
\* of the departure
FlightOffer(origin, dest, it) ==
    [price |-> it.price, airline |-> it.airline, flight_number |-> it.flight_number,
     departure_at |-> it.departure_at, transfers |-> it.transfers,
     origin |-> origin, destination |-> dest,
     link |-> <<origin, dest, it.departure_at[2]>>]

\* one GET of fetch_cheapest: an exception of the call, of r.json() or of
\* datetime.fromisoformat on an item without a departure time leaves the
\* function; a status other than 200 adds nothing
DayResult(origin, dest, http) ==
    IF http.k \in {"netfail", "timeout", "badjson"} THEN Raises
    ELSE IF http.k \in {"status", "nokey"} THEN RetList(<<>>)
    ELSE IF \E i \in DOMAIN http.data : http.data[i].departure_at = <<>> THEN Raises
    ELSE RetList([i \in DOMAIN http.data |-> FlightOffer(origin, dest, http.data[i])])

\* fetch_cheapest(session, origin, dest, dep_date, days_flex); resp[i] is what
\* the GET for the i-th day comes to
fetch_cheapest(origin, dest, dep_day, days_flex, resp) ==
    LET days == FetchDays(dep_day, days_flex)
        per == [i \in DOMAIN days |-> DayResult(origin, dest, resp[i])]
        failed == {i \in DOMAIN days : per[i] = Raises}
        asked == IF failed = {} THEN Len(days)
                 ELSE CHOOSE i \in failed : \A j \in failed : i <= j
        results == Concat([i \in DOMAIN days |-> per[i].v])
        filtered == DedupFlights(SortByPrice(results), {})
    IN [k |-> IF failed = {} THEN "list" ELSE "raise",
        v |-> IF failed = {} THEN SubSeq(filtered, 1, Min(Len(filtered), FETCH_CAP)) ELSE <<>>,
        pool |-> IF failed = {} THEN results ELSE <<>>,
        asked |-> [i \in 1..asked |-> <<dest, days[i]>>]]

\* the timestamp of a flight on a day of November
DepAt(day, t) == <<"2025", "11-0" \o ToString(day), t>>

\* what the provider can answer to the GETs of one airport
Patterns ==
    {"nothing", "refused", "one_per_day", "today_one", "today_some", "same_each_day",
     "full_each_day", "network_down"}

\* the answers of a pattern to the GETs for the days of a search
Responses(pattern, dest, days) ==
    [i \in DOMAIN days |->
        CASE pattern = "nothing" -> [k |-> "ok", data |-> <<>>]
          [] pattern = "refused" -> [k |-> "status", data |-> <<>>]
          [] pattern = "one_per_day" ->
                [k |-> "ok",
                 data |-> <<Flight(DepAt(days[i], "08:00"), PInt(100 * i + DestNo(dest)), "1")>>]
          [] pattern = "today_one" ->
                [k |-> "ok",
                 data |-> IF 2 * i = Len(days) + 1
                          THEN <<Flight(DepAt(days[i], "08:00"), PInt(50 + DestNo(dest)), "1")>>
                          ELSE <<>>]
          [] pattern = "today_some" ->
                [k |-> "ok",
                 data |-> IF 2 * i = Len(days) + 1
                          THEN [n \in 1..MaxPerDay |->
                                   Flight(DepAt(days[i], "08:00"),
                                          IF n = 1 THEN PNone ELSE PInt(60 * n + DestNo(dest)),
                                          ToString(n))]
                          ELSE <<>>]
          [] pattern = "same_each_day" ->
                [k |-> "ok",
                 data |-> <<Flight(DepAt(days[1], "08:00"), PInt(300 + DestNo(dest)), "7")>>]
          [] pattern = "full_each_day" ->
                [k |-> "ok",
                 data |-> [n \in 1..MaxPerDay |->
                              Flight(DepAt(days[i], "08:00"),
                                     PInt(100 * i + 10 * n + DestNo(dest)), ToString(n))]]
          [] OTHER ->
                IF 2 * i = Len(days) + 1 THEN [k |-> "netfail", data |-> <<>>]
                ELSE [k |-> "ok", data |-> <<>>]]

\* USER_STATE.get(uid, {}) as run_search finds it: origin, tag and dest_group,
\* each there or not
SearchSessions ==
    {[origin |-> Some("TAS"), tag |-> Some("ru"), dest_group |-> Some("Moscow")],
     [origin |-> Some("TAS"), tag |-> Some("ru"), dest_group |-> Some("Petersburg")],
     [origin |-> None, tag |-> Some("ru"), dest_group |-> Some("Moscow")],
     [origin |-> Some("TAS"), tag |-> Some("ru"), dest_group |-> Some("Dubai")],
     [origin |-> None, tag |-> None, dest_group |-> None]}

\* all([origin, tag, dest_group_name])
Complete(st) == st.origin # None /\ st.tag # None /\ st.dest_group # None

\* next((g for g in dest_groups if g["city"] == dest_group_name), None):
\* the airports of the group, none when the tag's groups have no such city
GroupCodes(st) ==
    LET groups == IF Val(st.tag) = "ru" THEN DEST_GROUPS.ru ELSE DEST_GROUPS.uae
    IN IF Val(st.dest_group) \in DOMAIN groups THEN groups[Val(st.dest_group)] ELSE <<>>

\* the airports run_search would ask for
CodesOf(st) == IF Complete(st) THEN GroupCodes(st) ELSE <<>>

\* all_offers[:3]
FreePart(all_offers) == SubSeq(all_offers, 1, Min(Len(all_offers), FREE_COUNT))

\* all_offers[3:10] with the first of them taken for free as well
PaidPart_from_third(all_offers) ==
    SubSeq(all_offers, FREE_COUNT, Min(Len(all_offers), PAID_END))

\* all_offers[3:10]
PaidPart(all_offers) == SubSeq(all_offers, FREE_COUNT + 1, Min(Len(all_offers), PAID_END))

\* create_service_fee_invoice(user_id): payme.generate_payment_link makes the
\* link or raises
create_service_fee_invoice(user_id, link_ok) ==
    IF link_ok
    THEN [k |-> "dict", order_id |-> <<"svc", user_id>>, amount |-> SERVICE_FEE_AMOUNT,
          pay_link |-> TRUE]
    ELSE [k |-> "raise"]

\* format_card: what the message shows of an offer
format_card(x) ==
    [price |-> x.price, transfers |-> x.transfers, origin |-> x.origin,
     destination |-> x.destination, d_show |-> x.departure_at[2],
     t_show |-> x.departure_at[3], airline |-> x.airline,
     flight_number |-> x.flight_number, link |-> x.link]

\* what run_search leaves: the reply, the sorted offers, the cards shown, the
\* GETs made, and whether create_service_fee_invoice was called
Searched(out, ranked, pool, shown, asked, invoice, pay_link) ==
    [h |-> "run_search", out |-> out, ranked |-> ranked, pool |-> pool, shown |-> shown,
     asked |-> asked, invoice |-> invoice, pay_link |-> pay_link]

\* run_search(ctx, dep_str): date_ok is whether dep_str is a date of the
\* calendar, answers[i] the pattern of the i-th airport of the group, pay_ok
\* whether payme.generate_payment_link returns
run_search(uid, st, date_ok, dep_day, answers, pay_ok) ==
    IF ~Complete(st) THEN Searched("restart", <<>>, <<>>, <<>>, <<>>, FALSE, FALSE)
    ELSE IF GroupCodes(st) = <<>> THEN Searched("no_direction", <<>>, <<>>, <<>>, <<>>, FALSE, FALSE)
    ELSE IF ~date_ok THEN Searched("crash", <<>>, <<>>, <<>>, <<>>, FALSE, FALSE)
    ELSE
    LET codes == GroupCodes(st)
        days == FetchDays(dep_day, DAYS_FLEX)
        offs == [i \in DOMAIN codes |->
                    fetch_cheapest(Val(st.origin), codes[i], dep_day, DAYS_FLEX,
                                   Responses(answers[i], codes[i], days))]
        failed == {i \in DOMAIN codes : offs[i].k = "raise"}
        reached == IF failed = {} THEN Len(codes)
                   ELSE CHOOSE i \in failed : \A j \in failed : i <= j
        asked == Concat([i \in 1..reached |-> offs[i].asked])
        pool == Concat([i \in DOMAIN codes |-> offs[i].pool])
        all_offers == SortByPrice(Concat([i \in DOMAIN codes |-> offs[i].v]))
        free == FreePart(all_offers)
        paid == PaidPart(all_offers)
        cards == [i \in DOMAIN free |-> format_card(free[i])]
    IN IF failed # {} THEN Searched("crash", <<>>, <<>>, <<>>, asked, FALSE, FALSE)
       ELSE IF all_offers = <<>> THEN Searched("nothing_found", <<>>, pool, <<>>, asked, FALSE, FALSE)
       ELSE IF paid = <<>> THEN Searched("offers", all_offers, pool, cards, asked, FALSE, FALSE)
       ELSE IF create_service_fee_invoice(uid, pay_ok).k = "raise"
            THEN Searched("crash", all_offers, pool, <<>>, asked, TRUE, FALSE)
       ELSE Searched("offers", all_offers, pool, cards, asked, TRUE,
                     create_service_fee_invoice(uid, pay_ok).pay_link)

\* the day of the month the searches are for
SearchDay == 5

InitRunSearch ==
    /\ NoDialogue
    /\ \E uid \in Users, st \in SearchSessions, date_ok \in BOOLEAN, pay_ok \in BOOLEAN :
          \E answers \in [DOMAIN CodesOf(st) -> Patterns] :
              last = [h |-> "input", uid |-> uid, st |-> st, date_ok |-> date_ok, pay_ok |-> pay_ok,
                      answers |-> answers]

\* set_date / manual_date: await run_search(ctx, dep)
call_run_search ==
    /\ last.h = "input"
    /\ last' = run_search(last.uid, last.st, last.date_ok, SearchDay, last.answers, last.pay_ok)
                   @@ [args |-> last]
    /\ UNCHANGED <<user_state, msgs, calls, env>>

NextRunSearch == call_run_search

SpecRunSearch == InitRunSearch /\ [][NextRunSearch]_vars

----------------------------------------------------------------------------
(* ensure_iata of aviasales.py on its own.  A string is the sequence of   *)
(* its characters.                                                        *)

\* the characters of the codes tried: a lower-case and an upper-case letter,
\* a letter whose upper case is two letters, a digit and a blank
CodeChars == {"t", "A", "ß", "1", " "}

\* str.upper() of one character
UpperChar(ch) ==
    CASE ch = "t" -> <<"T">>
      [] ch = "ß" -> <<"S", "S">>
      [] OTHER -> <<ch>>

\* str.isalpha() of one character
IsAlphaChar(ch) == ch \in {"t", "T", "A", "S", "ß"}

\* str.isspace() of one character
IsSpaceChar(ch) == ch = " "

RECURSIVE UpperStr(_)
UpperStr(str) == IF str = <<>> THEN <<>> ELSE UpperChar(Head(str)) \o UpperStr(Tail(str))

RECURSIVE LStrip(_)
LStrip(str) ==
    IF str # <<>> /\ IsSpaceChar(Head(str)) THEN LStrip(Tail(str)) ELSE str

RECURSIVE RStrip(_)
RStrip(str) ==
    IF str # <<>> /\ IsSpaceChar(str[Len(str)])
    THEN RStrip(SubSeq(str, 1, Len(str) - 1)) ELSE str

\* str.strip()
Strip(str) == RStrip(LStrip(str))

\* an ensure_iata that would take the code as it comes
ensure_iata_unstripped(code) ==
    LET c == UpperStr(code)
    IN IF Len(c) # 3 \/ \E i \in DOMAIN c : ~IsAlphaChar(c[i])
       THEN [k |-> "raise", v |-> <<>>]
       ELSE [k |-> "str", v |-> c]

\* ensure_iata(code): the code stripped and upper-cased, or ValueError
ensure_iata(code) ==
    LET c == UpperStr(Strip(code))
    IN IF Len(c) # 3 \/ \E i \in DOMAIN c : ~IsAlphaChar(c[i])
       THEN [k |-> "raise", v |-> <<>>]
       ELSE [k |-> "str", v |-> c]

\* the strings tried as codes
CodeStrings == UNION {[1..n -> CodeChars] : n \in 0..MaxCodeLen}

InitIata ==
    /\ NoDialogue
    /\ \E code \in CodeStrings : last = [h |-> "input", code |-> code]

call_ensure_iata ==
    /\ last.h = "input"
    /\ last' = [h |-> "ensure_iata", code |-> last.code, out |-> ensure_iata(last.code)]
    /\ UNCHANGED <<user_state, msgs, calls, env>>

NextIata == call_ensure_iata

SpecIata == InitIata /\ [][NextIata]_vars

----------------------------------------------------------------------------
(* build_ref_link of buy_ticket on its own: two clicks on the same offer  *)
(* of the same session, each on its own day                               *)

\* the offers a click can select: one that carries the provider's link, one
\* that carries none
LinkChoices == {Normalize(AvsItem(1)), Normalize(TpItem(1, 1))}

\* the sessions a click can find: results are there, so a date has been
\* chosen; origin and destination are there or not
LinkSessions ==
    {[QueryState EXCEPT !.origin = o, !.destination = d, !.depart_date = Some(day)] :
        o \in {None} \cup {Some(c) : c \in Codes},
        d \in {None} \cup {Some(c) : c \in Codes},
        day \in Todays}

InitLink ==
    /\ user_state = <<>>
    /\ msgs = <<>>
    /\ calls = [h \in Slots |-> IdleCall]
    /\ env \in Envs
    /\ \E choice \in LinkChoices, st \in LinkSessions, uid \in Users, d1 \in Todays, d2 \in Todays :
          last = [h |-> "input", uid |-> uid, choice |-> choice, st |-> st,
                  today |-> d1, later |-> d2]

\* buy_ticket: ref_url = build_ref_link(), on the day of the first click
call_build_ref_link ==
    /\ last.h = "input"
    /\ last' = [h |-> "build_ref_link", uid |-> last.uid, choice |-> last.choice, st |-> last.st,
                today |-> last.today, later |-> last.later,
                link |-> build_ref_link(last.choice, last.st, last.today)]
    /\ UNCHANGED <<user_state, msgs, calls, env>>

\* the same click again, on the day of the second
call_build_ref_link_again ==
    /\ last.h = "build_ref_link"
    /\ last' = [h |-> "build_ref_link_again", uid |-> last.uid, choice |-> last.choice,
                st |-> last.st, today |-> last.today, later |-> last.later,
                first |-> last.link,
                link |-> build_ref_link(last.choice, last.st, last.later)]
    /\ UNCHANGED <<user_state, msgs, calls, env>>

NextLink ==
    \/ call_build_ref_link
    \/ call_build_ref_link_again

SpecLink == InitLink /\ [][NextLink]_vars

----------------------------------------------------------------------------
(* The steps and states the claims speak of *)

\* the user's session, a fresh one where the user has none
Session(uid) == SetDefault(uid)

\* this step is the part of cal_set that starts the two fetches
CalSetFetches(h) == calls[h].pc = "announced" /\ calls'[h].pc = "gather"

\* this step is the part of cal_set after the gather
CalSetEnds(h) == calls[h].pc = "gather" /\ calls'[h].pc = "idle"

\* the offers of a fetch that returned, none for one that did not
Offers(r) == IF r.k = "list" THEN r.v ELSE <<>>

----------------------------------------------------------------------------
(* Claims *)

\* C1: a provider fetch never raises past its boundary: whatever the outbound
\* call comes to, a fetch that has resolved has returned a list.
C1_FetchNeverRaises ==
    \A h \in Slots : calls[h].tp.k \in {"pending", "list"} /\ calls[h].avs.k \in {"pending", "list"}

\* C2: when cal_set resumes after the fan-out and at least one of the two
\* calls has returned offers, the session's results are the merge of what the
\* calls that returned have returned, whatever became of the other call.
C2_PartialFailureKeepsOffers ==
    [][\A h \in Slots :
          (CalSetEnds(h) /\ calls[h].att
              /\ (Offers(calls[h].tp) # <<>> \/ Offers(calls[h].avs) # <<>>))
          => user_state'[calls[h].uid].results
                 = merge_results(Offers(calls[h].tp), Offers(calls[h].avs), MERGE_LIMIT)]_vars

\* C3: while a cal_set of a user is between its first and its last access to
\* the user's session, no step of another handler accesses that session.
C3_OneHandlerAtATime ==
    [][\A h \in Slots :
          (calls[h].pc # "idle" /\ calls[h].att /\ last'.acc /\ last'.uid = calls[h].uid)
          => last'.slot = h]_vars

\* C4: a search whose session was reset while it was in flight is discarded
\* when it arrives: the user's session keeps empty results, page 0 and no
\* date, and nothing is rendered on the message.
C4_LateResultsDiscarded ==
    [][\A h \in Slots :
          (CalSetEnds(h) /\ ~calls[h].att)
          => /\ user_state'[calls[h].uid].results = <<>>
             /\ user_state'[calls[h].uid].page = 0
             /\ user_state'[calls[h].uid].depart_date = None
             /\ msgs' = msgs]_vars

\* this step handles the event ev of user uid
Handles(ev, uid) == last'.h = ev /\ last'.uid = uid

\* this step handles a date chosen by uid: the part of cal_set up to its first await
DateChosen(uid) == Handles("cal_set", uid) /\ last'.out \notin {"fetching", "results", "crash"}

\* an event that is not valid in the state it is handled in: a destination or
\* a date chosen with no origin recorded, an offer selected or more results
\* asked for with no results
InvalidEvent(uid) ==
    \/ Handles("pick_dest", uid) /\ Session(uid).origin = None
    \/ DateChosen(uid) /\ Session(uid).origin = None
    \/ (Handles("buy_ticket", uid) \/ Handles("res_more", uid)) /\ Session(uid).results = <<>>

\* C5: handling an event that is not valid in the current state does not
\* crash and leaves every field of the session as it was.
C5_InvalidEventNoTransition ==
    [][\A uid \in Users :
          InvalidEvent(uid) => (last'.out # "crash" /\ user_state'[uid] = Session(uid))]_vars

\* C6: a date chosen while the session has no origin or no destination
\* records no date and no results, starts no search and is answered with the
\* instruction to restart; no fetch is started for a route with a missing end.
C6_DateNeedsRoute ==
    [][/\ \A uid \in Users :
             (DateChosen(uid) /\ (Session(uid).origin = None \/ Session(uid).destination = None))
             => /\ user_state'[uid] = Session(uid)
                /\ calls' = calls
                /\ last'.out = "restart"
       /\ \A h \in Slots :
             CalSetFetches(h) => (calls'[h].q[1] # None /\ calls'[h].q[2] # None)]_vars

\* C7: a session that has both an origin and a destination has two
\* different codes.
C7_RouteEndsDiffer ==
    \A uid \in DOMAIN user_state :
        (user_state[uid].origin # None /\ user_state[uid].destination # None)
        => user_state[uid].origin # user_state[uid].destination

\* C8: a select-offer that is not answered "not found" carries an index
\* within the results: an index below 0 or beyond the last offer records no
\* selected index and brings no contact prompt.
C8_OutOfRangeRejected ==
    [][\A uid \in DOMAIN user_state :
          (Handles("buy_ticket", uid) /\ last'.out # "not_found")
          => /\ user_state'[uid].selected_idx # None
             /\ Val(user_state'[uid].selected_idx) >= 0
             /\ Val(user_state'[uid].selected_idx) < Len(user_state'[uid].results)]_vars

\* C9: a show-more that is answered "no more results" leaves the session,
\* its page cursor included, as it was.
C9_NoMoreKeepsPage ==
    [][\A uid \in Users :
          (Handles("res_more", uid) /\ last'.out = "no_more_results") => user_state' = user_state]_vars

\* C10: a contact that emits a lead returns the session to Idle: no offer
\* stays selected, so that a further contact emits no further lead.
C10_LeadThenIdle ==
    [][\A uid \in DOMAIN user_state :
          (Handles("got_contact", uid) /\ last'.lead) => user_state'[uid].selected_idx = None]_vars

\* C11: a reset handled in any state leaves the user's session with every
\* field at its initial value: no origin, no destination, no depart date, no
\* return date, no selected offer, empty results and page 0.
C11_ResetClearsSession ==
    [][\A uid \in Users :
          Handles("reset_flow", uid)
          => /\ uid \in DOMAIN user_state'
             /\ user_state'[uid].origin = None
             /\ user_state'[uid].destination = None
             /\ user_state'[uid].depart_date = None
             /\ user_state'[uid].return_date = None
             /\ user_state'[uid].selected_idx = None
             /\ user_state'[uid].results = <<>>
             /\ user_state'[uid].page = 0]_vars

\* a reset has just been handled while a search of the user, with its route
\* and date recorded, was in flight
C11_ResetDuringSearch ==
    /\ last.h = "reset_flow"
    /\ \E h \in Slots :
          /\ calls[h].pc # "idle" /\ calls[h].uid = last.uid /\ ~calls[h].att
          /\ calls[h].own.origin # None /\ calls[h].own.depart_date # None

\* the pool of a merge_results call, normalized, in concatenation order
PoolOf(call) == MapNormalize(call.l1 \o call.l2)

\* the place in the pool of the first offer with the dedup key of n
FirstWithKey(pool, n) ==
    CHOOSE j \in 1..Len(pool) :
        /\ DedupKey(pool[j]) = DedupKey(n)
        /\ \A k \in 1..(j - 1) : DedupKey(pool[k]) # DedupKey(n)

\* C12 as stated: of the offers of the pool that share a dedup key (airline,
\* departure_at), the merged list keeps the one that comes first in the pool,
\* whatever the prices.
C12_FirstSeenWins ==
    last.h = "merge_results"
    => \A i \in 1..Len(last.out) :
          last.out[i] = PoolOf(last)[FirstWithKey(PoolOf(last), last.out[i])]

\* C12, amended: of the offers of the pool that share a dedup key, the merged
\* list keeps the one with the lowest integer price (an offer without one
\* counts as dearest), and of several of those the one that comes first in the pool.
C12_CheapestWins ==
    last.h = "merge_results"
    => \A i \in 1..Len(last.out) :
          \E j \in 1..Len(PoolOf(last)) :
              /\ PoolOf(last)[j] = last.out[i]
              /\ \A k \in 1..Len(PoolOf(last)) :
                    DedupKey(PoolOf(last)[k]) = DedupKey(last.out[i])
                    => \/ SortKey(PoolOf(last)[j]) < SortKey(PoolOf(last)[k])
                       \/ SortKey(PoolOf(last)[j]) = SortKey(PoolOf(last)[k]) /\ j <= k

\* a merge of a pool where an offer comes before a cheaper one with the same
\* key, and the cheaper one is in the merged list
C12_DearerCameFirst ==
    /\ last.h = "merge_results"
    /\ \E j, k \in 1..Len(PoolOf(last)) :
          /\ j < k
          /\ DedupKey(PoolOf(last)[j]) = DedupKey(PoolOf(last)[k])
          /\ SortKey(PoolOf(last)[j]) > SortKey(PoolOf(last)[k])
          /\ \E i \in 1..Len(last.out) : last.out[i] = PoolOf(last)[k]

\* C13: in the list merge_results returns, every offer without a price comes
\* after every offer with one, whatever the form of the price that is there
\* (zero, not an integer).
C13_AbsentPriceLast ==
    last.h = "merge_results"
    => \A i, j \in 1..Len(last.out) :
          (last.out[i].price.t = "none" /\ last.out[j].price.t # "none") => j < i

\* C14: merge_results applied to a list it has returned, with the same limit,
\* returns that list.
C14_MergeIdempotent ==
    last.h = "merge_results_again" => last.out = last.merged

\* what a rendering was made of
Count == Len(last.q.results)
PageNo == last.q.page
\* the indices (from 0) of the offers the text shows, and of the buy buttons
ShownIdx == {last.view.text.lines[j].i - 1 : j \in DOMAIN last.view.text.lines}
BuyIdx == {last.view.kb.buy[j] : j \in DOMAIN last.view.kb.buy}

\* C15: every rendering of results (after the search, after show-more, after
\* a return date) has hasMore true exactly when
\* page * pageSize + pageSize < the number of offers of the session.
C15_HasMoreFormula ==
    last.h = "render"
    => (last.view.kb.more <=> PageNo * PAGE_SIZE + PAGE_SIZE < Count)

\* a page above the first rendered with more to come
C15_MoreOnLaterPage ==
    last.h = "render" /\ PageNo >= 1 /\ last.view.kb.more

\* C16: page p shows exactly the offers at the indices
\* [p * pageSize, (p + 1) * pageSize) that the list has, each with its own
\* number and content, so that every offer is on exactly one page; the buy
\* buttons carry exactly the indices of the offers shown, one button each.
C16_PagesPartition ==
    last.h = "render"
    => /\ \A k \in 0..(Count - 1) : k \in ShownIdx <=> k \div PAGE_SIZE = PageNo
       /\ ShownIdx \subseteq 0..(Count - 1)
       /\ \A j \in DOMAIN last.view.text.lines :
             /\ last.view.text.lines[j].i = PageNo * PAGE_SIZE + j
             /\ last.view.text.lines[j].price
                    = fmt_price(last.q.results[PageNo * PAGE_SIZE + j].price)
       /\ BuyIdx = ShownIdx
       /\ Len(last.view.kb.buy) = Cardinality(ShownIdx)

\* a last page that is not full, rendered after the first
C16_ShortLastPage ==
    /\ last.h = "render" /\ PageNo >= 1
    /\ ShownIdx # {} /\ Cardinality(ShownIdx) < PAGE_SIZE

\* C17: a page past the end of a list that has offers renders as an empty
\* page with hasMore false, and its text is not the text that reports no
\* results, which is rendered exactly when the list is empty.
C17_PastEndIsNotNoResults ==
    last.h = "render"
    => /\ (Count > 0 /\ PageNo * PAGE_SIZE >= Count)
             => /\ last.view.text.body = "all_shown"
                /\ last.view.text.lines = <<>>
                /\ last.view.kb.buy = <<>>
                /\ ~last.view.kb.more
       /\ last.view.text.body = "no_results" <=> Count = 0

\* show-more has rendered a page past the end of a list that has offers
C17_PastEndRendered ==
    /\ last.h = "render" /\ last.site = "res_more"
    /\ Count > 0 /\ PageNo * PAGE_SIZE >= Count

\* C18: no user of main.py has a paid tier (there is no gate to read), so no
\* results message shows an offer beyond the first FREE_COUNT of the
\* session's results, and none has a buy button for one.
C18_GatedOffersHidden ==
    \A m \in MsgIds :
        msgs[m].kb.k = "results"
        => /\ \A j \in DOMAIN msgs[m].text.lines : msgs[m].text.lines[j].i <= FREE_COUNT
           /\ \A j \in DOMAIN msgs[m].kb.buy : msgs[m].kb.buy[j] < FREE_COUNT

\* C19: a search creates a service-fee invoice exactly when its sorted offers
\* are more than FREE_COUNT; a search with none to FREE_COUNT offers creates none.
C19_InvoiceIffGated ==
    last.h = "run_search" => (last.invoice <=> Len(last.ranked) > FREE_COUNT)

\* a search that found one offer more than the free ones, and asked for an invoice
C19_FourthOfferInvoiced ==
    last.h = "run_search" /\ Len(last.ranked) = FREE_COUNT + 1 /\ last.invoice

\* C20: cal_set merges and writes results only after both provider calls of
\* its fan-out have resolved, and what it writes is the merge of all that
\* both have returned, never of what a part of them has.
C20_MergeAfterAllResolved ==
    [][\A h \in Slots :
          (CalSetEnds(h) /\ (last'.out = "results" \/ user_state' # user_state \/ msgs' # msgs))
          => /\ calls[h].tp.k # "pending"
             /\ calls[h].avs.k # "pending"
             /\ calls[h].att
                   => user_state'[calls[h].uid].results
                          = merge_results(Offers(calls[h].tp), Offers(calls[h].avs), MERGE_LIMIT)]_vars

\* a search has just written offers of both providers' answers to the session
C20_ResultsWritten ==
    /\ last.h = "cal_set" /\ last.out = "results"
    /\ last.uid \in DOMAIN user_state
    /\ Len(user_state[last.uid].results) = PAGE_SIZE + 1

\* C21: when both provider calls of a search have come to nothing (an empty
\* list or a failure), cal_set ends without an exception, the user's session
\* has empty results and page 0, and the message shows the no-results text.
C21_AllFailIsNothingFound ==
    [][\A h \in Slots :
          (CalSetEnds(h) /\ calls[h].att
              /\ Offers(calls[h].tp) = <<>> /\ Offers(calls[h].avs) = <<>>)
          => /\ last'.out = "results"
             /\ user_state'[calls[h].uid].results = <<>>
             /\ user_state'[calls[h].uid].page = 0
             /\ msgs'[calls[h].msg].text.k = "results"
             /\ msgs'[calls[h].msg].text.body = "no_results"]_vars

\* C22 as stated: ensure_iata accepts a code exactly when it consists of
\* exactly 3 alphabetic characters, in either case, and then returns it in
\* upper case; it rejects every other string.
C22_ExactlyThreeLetters ==
    last.h = "ensure_iata"
    => /\ last.out.k = "str"
             <=> (Len(last.code) = 3 /\ \A i \in DOMAIN last.code : IsAlphaChar(last.code[i]))
       /\ last.out.k = "str" => last.out.v = UpperStr(last.code)

\* the code without the blanks around it: its characters from the first to
\* the last that is no blank
Core(str) ==
    LET solid == {i \in DOMAIN str : ~IsSpaceChar(str[i])}
    IN IF solid = {} THEN <<>>
       ELSE SubSeq(str, CHOOSE i \in solid : \A j \in solid : i <= j,
                        CHOOSE i \in solid : \A j \in solid : i >= j)

\* C22, amended: ensure_iata accepts a code exactly when the code without the
\* whitespace around it, put in upper case, has exactly 3 characters, all
\* alphabetic; it then returns that string, and rejects every other input.
C22_ThreeLettersAfterStrip ==
    last.h = "ensure_iata"
    => /\ last.out.k = "str"
             <=> /\ Len(UpperStr(Core(last.code))) = 3
                 /\ \A i \in 1..3 : IsAlphaChar(UpperStr(Core(last.code))[i])
       /\ last.out.k = "str" => last.out.v = UpperStr(Core(last.code))

\* a code with a blank before it has been accepted
C22_PaddedCodeAccepted ==
    last.h = "ensure_iata" /\ last.out.k = "str" /\ last.code[1] = " "

\* C23: two clicks on the same offer, with the same route and date in the
\* session and by the same user, get the same purchase link, whatever the
\* days they are made on; an offer that carries a provider's link gets that
\* link as it is.
C23_LinkDeterministic ==
    /\ last.h = "build_ref_link_again" => last.link = last.first
    /\ (last.h \in {"build_ref_link", "build_ref_link_again"} /\ last.choice.link # "")
           => last.link = Some(last.choice.link)

\* the second of two clicks made on different days on an offer without a
\* link of its own has got a link from the template
C23_TemplateLinkTwice ==
    /\ last.h = "build_ref_link_again"
    /\ last.today # last.later
    /\ last.choice.link = "" /\ last.link # None

\* the airports a run_search was for, and the days around its date
AskedCodes == GroupCodes(last.args.st)
FlexDays == (SearchDay - DAYS_FLEX)..(SearchDay + DAYS_FLEX)
\* what the provider answered for the i-th airport on the k-th day
Answered(i, k) ==
    Responses(last.args.answers[i], AskedCodes[i], FetchDays(SearchDay, DAYS_FLEX))[k].data

\* C24: a search with a date-flex of DAYS_FLEX days makes exactly one GET for
\* each airport and each of the 2 * DAYS_FLEX + 1 days around the date, and
\* every offer those GETs return is in the pool before deduplication.
C24_OneFetchPerDay ==
    (/\ last.h = "run_search"
     /\ Complete(last.args.st) /\ GroupCodes(last.args.st) # <<>> /\ last.args.date_ok)
    => /\ Len(last.asked) = Len(AskedCodes) * (2 * DAYS_FLEX + 1)
       /\ \A i \in DOMAIN AskedCodes, day \in FlexDays :
             Cardinality({j \in DOMAIN last.asked : last.asked[j] = <<AskedCodes[i], day>>}) = 1
       /\ \A i \in DOMAIN AskedCodes, k \in 1..(2 * DAYS_FLEX + 1) :
             \A n \in DOMAIN Answered(i, k) :
                 \E p \in DOMAIN last.pool :
                     last.pool[p] = FlightOffer(Val(last.args.st.origin), AskedCodes[i],
                                                Answered(i, k)[n])

\* C25: a session whose selected_idx is set has
\* 0 <= selected_idx < the number of offers of its results.
C25_SelectedIdxInRange ==
    \A uid \in DOMAIN user_state :
        user_state[uid].selected_idx # None
        => /\ 0 <= Val(user_state[uid].selected_idx)
           /\ Val(user_state[uid].selected_idx) < Len(user_state[uid].results)

\* the origin, destination and depart date a session records
Recorded(q) == <<q.origin, q.destination, q.depart_date>>

\* after this step no cal_set of uid is in flight
NoneInFlightAfter(uid) == \A h \in Slots : calls'[h].pc = "idle" \/ calls'[h].uid # uid

\* C26: whenever no search handler of a user is in flight, the results in the
\* user's session are the merged output of a search for the origin,
\* destination and depart date the session records.  As steps: a cal_set that
\* ends and stores results has fetched them for what the session records, and
\* a step that changes what a session records does not keep its results.
C26_ResultsMatchQuery ==
    [][\A uid \in Users :
          (uid \in DOMAIN user_state /\ uid \in DOMAIN user_state' /\ NoneInFlightAfter(uid)
              /\ user_state'[uid].results # <<>>)
          => /\ \A h \in Slots :
                   (CalSetEnds(h) /\ calls[h].uid = uid /\ calls[h].att /\ last'.out = "results")
                   => calls[h].q = Recorded(user_state'[uid])
             /\ Recorded(user_state'[uid]) # Recorded(user_state[uid])
                   => \E h \in Slots : CalSetEnds(h) /\ calls[h].uid = uid /\ calls[h].att]_vars

\* C27: the list merge_results returns has at most limit offers, for every
\* pool and every limit from 0 on, and no two of its offers have the same
\* dedup key (airline, departure_at).
C27_WithinLimitNoDuplicates ==
    last.h = "merge_results"
    => /\ Len(last.out) <= last.limit
       /\ \A i, j \in 1..Len(last.out) :
             DedupKey(last.out[i]) = DedupKey(last.out[j]) => i = j

====
